---- MODULE Spec2Model ----
(***************************************************************************)
(* A model of the bigpandaapi client library: the submit-and-poll workflow *)
(* of mapping_update_table, the CSV serialisation helper it uses, and the  *)
(* session handling of the single-request operations.                      *)
(*                                                                         *)
(* Python values are encoded as follows.  A str is a sequence of code      *)
(* points (<<97, 98>> is "ab"); file paths, ids, statuses and exception    *)
(* names are TLA+ strings.  An optional argument is a sequence of length   *)
(* zero (None) or one (<<v>>).  A dict is a sequence of <<key, value>>     *)
(* pairs with distinct keys, in insertion order.                           *)
(***************************************************************************)
EXTENDS Integers, Sequences, FiniteSets, TLC

VARIABLES
    op,               \* the top-level operation being executed ("" when idle)
    pc,               \* position inside the operation
    csv_path,         \* argument of mapping_update_table (optional)
    list_of_dicts,    \* argument of mapping_update_table (optional)
    enrichment_name,  \* argument / local of mapping_update_table (optional)
    csv_string,       \* local: the text to upload (<<>> while unbound)
    bp_session,       \* "none", "open" or "closed"
    r_id,             \* the lookup response's data array
    mapping_id,       \* local: id selected by the lookup (optional)
    upload_target,    \* server side: id in the URL of the upload POST (optional)
    job_script,       \* server side: what the job answers to successive polls
    served,           \* server side: how many answers of the prefix were given
    r_upload,         \* body of the upload response (optional dict)
    job_id,           \* local: job id returned by the upload (optional)
    r_status,         \* body of the latest poll response (optional dict)
    transport,        \* the latest request and how the transport ended it
    exc,              \* the exception that left the operation, if any
    nLookup,          \* lookup GET requests issued
    nSubmit,          \* upload POST requests issued
    nPoll,            \* job-status GET requests issued
    nSleep,           \* time.sleep calls made
    nRequest,         \* requests issued by a single-request operation
    args,             \* arguments of a single-request operation, as passed
    req_body,         \* local: the object a single-request operation sends
    sent              \* server side: the object received as request data

vars == <<op, pc, csv_path, list_of_dicts, enrichment_name, csv_string,
          bp_session, r_id, mapping_id, upload_target, job_script, served,
          r_upload, job_id, r_status, transport, exc, nLookup, nSubmit, nPoll,
          nSleep, nRequest, args, req_body, sent>>

(***************************************************************************)
(* Bounds of the model.                                                    *)
(***************************************************************************)
MaxRecords == 2     \* records in a list_of_dicts given to the CSV helper
MaxKeys == 2        \* keys in one record
MaxEntries == 2     \* entries in a lookup response's data array
MaxK == 2           \* non-terminal answers before a job's final answer
MaxProps == 2       \* entries in the properties of an alert

(***************************************************************************)
(* Python values.                                                          *)
(***************************************************************************)
None == <<>>

Some(v) == <<v>>

\* Code points used by the model: '"', ',', '\n', 'a', 'b', 'q', 'x'.
QUOTECHAR == <<34>>

DELIMITER == <<44>>

LINETERMINATOR == <<10>>

\* Python's truth value of an optional str or list argument.
Truthy(opt) == opt # None /\ opt[1] # <<>>

\* Python's truth value of an optional path (a TLA+ string).
PathTruthy(opt) == opt # None /\ opt[1] # ""

Range(s) == {s[i] : i \in 1..Len(s)}

\* str comparison: lexicographic by code point.
RECURSIVE StrLess(_, _)
StrLess(a, b) ==
    IF a = <<>> THEN b # <<>>
    ELSE IF b = <<>> THEN FALSE
    ELSE IF Head(a) # Head(b) THEN Head(a) < Head(b)
    ELSE StrLess(Tail(a), Tail(b))

\* sorted(S) for a set of distinct strs.
RECURSIVE sorted(_)
sorted(S) ==
    IF S = {} THEN <<>>
    ELSE LET m == CHOOSE x \in S : \A y \in S \ {x} : StrLess(x, y)
         IN  <<m>> \o sorted(S \ {m})

\* str.split(sep) for a one-character separator.
RECURSIVE Split(_, _)
Split(s, sep) ==
    IF \A i \in 1..Len(s) : s[i] # sep THEN <<s>>
    ELSE LET k == CHOOSE i \in 1..Len(s) :
                      s[i] = sep /\ \A j \in 1..(i - 1) : s[j] # sep
         IN  <<SubSeq(s, 1, k - 1)>> \o Split(SubSeq(s, k + 1, Len(s)), sep)

\* file.readline(): the text up to and including the first newline.
ReadLine(text) ==
    IF \E i \in 1..Len(text) : text[i] = 10
    THEN SubSeq(text, 1, CHOOSE i \in 1..Len(text) :
                             text[i] = 10 /\ \A j \in 1..(i - 1) : text[j] # 10)
    ELSE text

\* str.rstrip("\n")
RECURSIVE RStripNewline(_)
RStripNewline(s) ==
    IF s # <<>> /\ s[Len(s)] = 10 THEN RStripNewline(SubSeq(s, 1, Len(s) - 1))
    ELSE s

\* str.encode("UTF-8") for code points below 2048.
RECURSIVE EncodeUtf8(_)
EncodeUtf8(s) ==
    IF s = <<>> THEN <<>>
    ELSE (IF Head(s) < 128 THEN <<Head(s)>>
          ELSE <<192 + (Head(s) \div 64), 128 + (Head(s) % 64)>>)
             \o EncodeUtf8(Tail(s))

(***************************************************************************)
(* dicts                                                                   *)
(***************************************************************************)
DictKeys(d) == {d[i][1] : i \in 1..Len(d)}

\* dict.get(key, default)
DictGet(d, key, default) ==
    IF key \in DictKeys(d)
    THEN d[CHOOSE i \in 1..Len(d) : d[i][1] = key][2]
    ELSE default

(***************************************************************************)
(* private.py                                                              *)
(***************************************************************************)
\* csv.DictWriter._dict_to_list with extrasaction="ignore", restval="".
DictToList(rowdict, fieldnames) ==
    [j \in 1..Len(fieldnames) |-> DictGet(rowdict, fieldnames[j], <<>>)]

\* One cell under QUOTE_ALL: quoted, embedded quotes doubled.
RECURSIVE DoubleQuotes(_)
DoubleQuotes(s) ==
    IF s = <<>> THEN <<>>
    ELSE (IF Head(s) = 34 THEN <<34, 34>> ELSE <<Head(s)>>) \o DoubleQuotes(Tail(s))

QuoteCell(s) == QUOTECHAR \o DoubleQuotes(s) \o QUOTECHAR

\* csv writer.writerow in the "unix" dialect.
RECURSIVE JoinCells(_)
JoinCells(cells) ==
    IF cells = <<>> THEN <<>>
    ELSE IF Len(cells) = 1 THEN QuoteCell(cells[1])
    ELSE QuoteCell(cells[1]) \o DELIMITER \o JoinCells(Tail(cells))

WriteRow(cells) == JoinCells(cells) \o LINETERMINATOR

RECURSIVE WriteRows(_, _)
WriteRows(rows, fieldnames) ==
    IF rows = <<>> THEN <<>>
    ELSE WriteRow(DictToList(Head(rows), fieldnames))
             \o WriteRows(Tail(rows), fieldnames)

\* The field names in the order the records' keys are first met.
RECURSIVE FirstSeen(_, _)
FirstSeen(keys, seen) ==
    IF keys = <<>> THEN seen
    ELSE FirstSeen(Tail(keys),
                   IF Head(keys) \in Range(seen) THEN seen
                   ELSE Append(seen, Head(keys)))

RECURSIVE AllKeys(_)
AllKeys(lod) ==
    IF lod = <<>> THEN <<>>
    ELSE [i \in 1..Len(Head(lod)) |-> Head(lod)[i][1]] \o AllKeys(Tail(lod))

FieldnamesUnsorted(lod) == FirstSeen(AllKeys(lod), <<>>)

\* private.py lines 48-52: the set of all keys, sorted.
Fieldnames(lod) ==
    sorted(UNION {DictKeys(lod[i]) : i \in 1..Len(lod)})

ListOfDictsToCsvStr(lod, fieldnames) ==
    WriteRow(fieldnames) \o WriteRows(lod, fieldnames)

_list_of_dicts_to_csv_str(lod) == ListOfDictsToCsvStr(lod, Fieldnames(lod))

\* _extract_enrichment_name_from_csv on the text of the file; IndexError is
\* reported as None.
ExtractEnrichmentName(text) ==
    LET cols == Split(RStripNewline(ReadLine(text)), 44)
    IN  IF Len(cols) >= 2 THEN Some(cols[2]) ELSE None

(***************************************************************************)
(* The inputs and the remote service.                                      *)
(***************************************************************************)
\* Field names "a", "ab", "b" and cell values "x", '"'.
FieldNames == {<<97>>, <<97, 98>>, <<98>>}

Values == {<<120>>, <<34>>}

DictsOfLen(k) ==
    {d \in [1..k -> FieldNames \X Values] :
        \A i, j \in 1..k : i # j => d[i][1] # d[j][1]}

Dicts(n) == UNION {DictsOfLen(k) : k \in 0..n}

RecordLists(n, dicts) == UNION {[1..k -> dicts] : k \in 0..n}

\* The lists the CSV helper is examined on.
CsvInputs == RecordLists(MaxRecords, Dicts(MaxKeys))

\* The list_of_dicts arguments of a mapping_update_table call.
ArgLists == RecordLists(1, {d \in DictsOfLen(1) : d[1][2] = <<120>>})

\* Enrichment names "a" and "ab", and the empty str.
EnrichmentNames == {<<97>>, <<97, 98>>}

NameArgs == {None, Some(<<>>)} \cup {Some(n) : n \in EnrichmentNames}

\* The files on disk: "q,a\nx,x\n", "q,ab\n" and "q\n".
Files ==
    [p \in {"a.csv", "ab.csv", "q.csv"} |->
        CASE p = "a.csv" -> <<113, 44, 97, 10, 120, 44, 120, 10>>
          [] p = "ab.csv" -> <<113, 44, 97, 98, 10>>
          [] p = "q.csv" -> <<113, 10>>]

\* "missing.csv" names no file.
PathArgs ==
    {None, Some(""), Some("missing.csv")} \cup {Some(p) : p \in DOMAIN Files}

\* Ids the service gives to the entries of a lookup response, by position.
IdPool == <<"m1", "m2", "m3", "m4">>

Entry(i, n) == [id |-> IdPool[i], config |-> [name |-> n]]

LookupData ==
    UNION {{[i \in 1..k |-> Entry(i, f[i])] : f \in [1..k -> EnrichmentNames]}
              : k \in 0..MaxEntries}

JobIds == {"j1", "j2"}

\* requests raises HTTPError from the raise_for_status hook, or
\* ConnectionError; both are RequestException and neither is
\* BigPandaAPIException.
TransportErrors == {"HTTPError", "ConnectionError"}

NonTerminal == {"pending", "running"}

Terminal == {"done", "failed"}

\* What the service can answer to one poll: a status, a transport failure,
\* or a body without a status field.
Answers == NonTerminal \cup Terminal \cup TransportErrors \cup {"NOSTATUS"}

\* A job answers a finite run of non-terminal statuses and then the same
\* answer for ever.
Scripts ==
    {[prefix |-> p, tail |-> t] :
        p \in UNION {[1..k -> NonTerminal] : k \in 0..MaxK}, t \in Answers}

NoJob == [prefix |-> <<>>, tail |-> "none"]

\* Request counters stop counting here; a call that ends never gets this far.
PollCap == MaxK + 2

Count(n) == IF n < PollCap THEN n + 1 ELSE n

(***************************************************************************)
(* Exceptions                                                              *)
(***************************************************************************)
\* The request of `step` ended with `result`: "ok" or a transport error.
Request(step, result) == [step |-> step, result |-> result]

NoRequest == Request("", "")

\* A JSON object with one field.
Body(field, v) == << <<field, v>> >>

NoExc == [type |-> "None", msg |-> "", arg |-> None]

Exc(type, msg) == [type |-> type, msg |-> msg, arg |-> None]

\* BigPandaAPIException(msg) whose message formats `arg` into it.
BigPandaAPIException(msg, arg) ==
    [type |-> "BigPandaAPIException", msg |-> msg, arg |-> arg]

Init ==
    /\ op = ""
    /\ pc = "idle"
    /\ csv_path = None
    /\ list_of_dicts = None
    /\ enrichment_name = None
    /\ csv_string = None
    /\ bp_session = "none"
    /\ r_id = <<>>
    /\ mapping_id = None
    /\ upload_target = None
    /\ job_script = NoJob
    /\ served = 0
    /\ r_upload = None
    /\ job_id = None
    /\ r_status = None
    /\ transport = NoRequest
    /\ exc = NoExc
    /\ nLookup = 0
    /\ nSubmit = 0
    /\ nPoll = 0
    /\ nSleep = 0
    /\ nRequest = 0
    /\ args = <<>>
    /\ req_body = None
    /\ sent = None

\* The operation ends by raising e.
Raise(e) == pc' = "raised" /\ exc' = e

\* The operation ends by returning.
Return == pc' = "returned" /\ exc' = NoExc

(***************************************************************************)
(* mapping_update_table                                                    *)
(***************************************************************************)
\* [csv_path, list_of_dicts].count(None)
CountNone(path, lod) ==
    (IF path = None THEN 1 ELSE 0) + (IF lod = None THEN 1 ELSE 0)

\* Lines 53-62: the TypeError the arguments raise, or NoExc.
ValidateInput(path, lod, name) ==
    IF CountNone(path, lod) = 0
    THEN Exc("TypeError", "The arguments 'csv_path' and 'list_of_dicts' are mutually exclusive.")
    ELSE IF CountNone(path, lod) = 2
    THEN Exc("TypeError", "Either argument 'csv_path' or 'list_of_dicts' must be set.")
    ELSE IF Truthy(lod) /\ ~Truthy(name)
    THEN Exc("TypeError", "Argument 'list_of_dicts' requires that argument 'enrichment_name' also be set.")
    ELSE NoExc

\* Lines 53-79: validation, preparation of the text, construction of the
\* session.  Nothing is sent.
mapping_update_table_Begin ==
    /\ pc = "idle"
    /\ \E path \in PathArgs, lod \in {None} \cup {Some(l) : l \in ArgLists},
          name \in NameArgs :
        /\ op' = "mapping_update_table"
        /\ csv_path' = path
        /\ list_of_dicts' = lod
        /\ IF ValidateInput(path, lod, name) # NoExc
           THEN /\ Raise(ValidateInput(path, lod, name))
                /\ enrichment_name' = name
                /\ UNCHANGED <<csv_string, bp_session>>
           ELSE IF PathTruthy(path)
           THEN IF path[1] \notin DOMAIN Files
                THEN /\ Raise(Exc("FileNotFoundError", path[1]))
                     /\ enrichment_name' = name
                     /\ UNCHANGED <<csv_string, bp_session>>
                ELSE IF ExtractEnrichmentName(Files[path[1]]) = None
                THEN /\ Raise(Exc("IndexError", "list index out of range"))
                     /\ enrichment_name' = name
                     /\ UNCHANGED <<csv_string, bp_session>>
                ELSE /\ enrichment_name' = ExtractEnrichmentName(Files[path[1]])
                     /\ csv_string' = Some(Files[path[1]])
                     /\ bp_session' = "open"
                     /\ pc' = "lookup"
                     /\ UNCHANGED exc
           ELSE /\ enrichment_name' = name
                /\ csv_string' = IF Truthy(lod)
                                 THEN Some(EncodeUtf8(
                                          _list_of_dicts_to_csv_str(lod[1])))
                                 ELSE None
                /\ bp_session' = "open"
                /\ pc' = "lookup"
                /\ UNCHANGED exc
    /\ UNCHANGED <<r_id, mapping_id, upload_target, job_script, served,
                   r_upload, job_id, r_status, transport, nLookup, nSubmit,
                   nPoll, nSleep, nRequest>>
    /\ UNCHANGED <<args, req_body, sent>>

\* next(item for item in data if item["config"]["name"] == name): the index
\* of the item, 0 for StopIteration.
NextMatchLast(data, name) ==
    LET hits == {i \in 1..Len(data) : Some(data[i].config.name) = name}
    IN  IF hits = {} THEN 0 ELSE CHOOSE i \in hits : \A j \in hits : j <= i

NextMatch(data, name) ==
    LET hits == {i \in 1..Len(data) : Some(data[i].config.name) = name}
    IN  IF hits = {} THEN 0 ELSE CHOOSE i \in hits : \A j \in hits : i <= j

\* Lines 81-90: the lookup GET and the selection of the mapping id.
mapping_update_table_Lookup ==
    /\ pc = "lookup"
    /\ nLookup' = nLookup + 1
    /\ \/ \E t \in TransportErrors :
            /\ transport' = Request("lookup", t)
            /\ Raise(Exc(t, ""))
            /\ UNCHANGED <<r_id, mapping_id>>
       \/ \E data \in LookupData :
            /\ transport' = Request("lookup", "ok")
            /\ r_id' = data
            /\ IF NextMatch(data, enrichment_name) = 0
               THEN /\ Raise(Exc("StopIteration", ""))
                    /\ UNCHANGED mapping_id
               ELSE /\ mapping_id' = Some(data[NextMatch(data, enrichment_name)].id)
                    /\ pc' = "submit"
                    /\ UNCHANGED exc
    /\ UNCHANGED <<op, csv_path, list_of_dicts, enrichment_name, csv_string,
                   bp_session, upload_target, job_script, served, r_upload,
                   job_id, r_status, nSubmit, nPoll, nSleep, nRequest>>
    /\ UNCHANGED <<args, req_body, sent>>

\* Lines 92-103: the upload POST and the extraction of the job id.  An
\* unbound csv_string raises before the request is made.
SubmitFailure(t) == Exc(t, "")

MissingJobIdKeyError == Exc("KeyError", "job_id")

MissingJobId ==
    BigPandaAPIException("Job ID not returned by upload to BigPanda.", None)

mapping_update_table_Submit ==
    /\ pc = "submit"
    /\ IF csv_string = None
       THEN /\ Raise(Exc("UnboundLocalError", "csv_string"))
            /\ UNCHANGED <<upload_target, job_script, r_upload, job_id,
                           transport, nSubmit>>
       ELSE /\ nSubmit' = nSubmit + 1
            /\ upload_target' = mapping_id
            /\ \/ \E t \in TransportErrors :
                    /\ transport' = Request("submit", t)
                    /\ Raise(SubmitFailure(t))
                    /\ UNCHANGED <<job_script, r_upload, job_id>>
               \/ \E body \in {<<>>} \cup {Body("job_id", j) : j \in JobIds},
                     s \in Scripts :
                    /\ transport' = Request("submit", "ok")
                    /\ r_upload' = Some(body)
                    /\ IF "job_id" \notin DictKeys(body)
                       THEN /\ Raise(MissingJobId)
                            /\ UNCHANGED <<job_script, job_id>>
                       ELSE /\ job_id' = Some(DictGet(body, "job_id", ""))
                            /\ job_script' = s
                            /\ pc' = "sleep"
                            /\ UNCHANGED exc
    /\ UNCHANGED <<op, csv_path, list_of_dicts, enrichment_name, csv_string,
                   bp_session, r_id, mapping_id, served, r_status, nLookup,
                   nPoll, nSleep, nRequest>>
    /\ UNCHANGED <<args, req_body, sent>>

\* Lines 105-106: time.sleep(5) at the head of each iteration.
mapping_update_table_Sleep ==
    /\ pc = "sleep"
    /\ nSleep' = Count(nSleep)
    /\ pc' = "poll"
    /\ UNCHANGED <<op, csv_path, list_of_dicts, enrichment_name, csv_string,
                   bp_session, r_id, mapping_id, upload_target, job_script,
                   served, r_upload, job_id, r_status, transport, exc, nLookup,
                   nSubmit, nPoll, nRequest>>
    /\ UNCHANGED <<args, req_body, sent>>

\* The service's answer to the next poll of the job.
NextAnswer ==
    IF served < Len(job_script.prefix)
    THEN job_script.prefix[served + 1]
    ELSE job_script.tail

\* Line 108: the loop is left on these statuses.
BreaksOnDoneOnly(status) == status = "done"

BreaksUnlessPending(status) == status # "pending"

Breaks(status) == status = "done" \/ status = "failed"

\* Lines 111-115: what the call does once the loop is left.
FinishNamesNoJob(status, job) ==
    IF status = "done"
    THEN Return
    ELSE Raise(BigPandaAPIException("Upload with job ID {job_id} failed!", None))

Finish(status, job) ==
    IF status = "done"
    THEN Return
    ELSE Raise(BigPandaAPIException("Upload with job ID {job_id} failed!", job))

PollFailure(t) == Exc(t, "")

\* Lines 107-115: the job-status GET, the test that leaves the loop, and the
\* end of the call.
mapping_update_table_Poll ==
    /\ pc = "poll"
    /\ nPoll' = Count(nPoll)
    /\ served' = IF served < Len(job_script.prefix) THEN served + 1 ELSE served
    /\ IF NextAnswer \in TransportErrors
       THEN /\ transport' = Request("poll", NextAnswer)
            /\ Raise(PollFailure(NextAnswer))
            /\ UNCHANGED r_status
       ELSE /\ transport' = Request("poll", "ok")
            /\ r_status' = Some(IF NextAnswer = "NOSTATUS" THEN <<>>
                                ELSE Body("status", NextAnswer))
            /\ IF "status" \notin DictKeys(r_status'[1])
               THEN Raise(Exc("KeyError", "status"))
               ELSE IF Breaks(DictGet(r_status'[1], "status", ""))
               THEN Finish(DictGet(r_status'[1], "status", ""), job_id)
               ELSE pc' = "sleep" /\ UNCHANGED exc
    /\ UNCHANGED <<op, csv_path, list_of_dicts, enrichment_name, csv_string,
                   bp_session, r_id, mapping_id, upload_target, job_script,
                   r_upload, job_id, nLookup, nSubmit, nSleep, nRequest>>
    /\ UNCHANGED <<args, req_body, sent>>

(***************************************************************************)
(* The single-request operations.  A str argument that is parsed is        *)
(* represented by its class: None, the empty str, a str that parses, a str *)
(* that does not.                                                          *)
(***************************************************************************)
StrClasses == {"None", "empty", "good", "bad"}

ClassTruthy(c) == c \in {"good", "bad"}

SimpleOps ==
    {"mapping_create_schema", "maintenance_plan_create", "maintenance_plan_get",
     "maintenance_plan_delete", "maintenance_plan_stop", "oim_send_alert"}

\* The message of the BigPandaAPIException that wraps a failed request.
FailureMessage(o) ==
    CASE o = "mapping_create_schema" -> "Creation of mapping enrichment schema failed."
      [] o = "maintenance_plan_create" -> "Creating maintenance plan failed."
      [] o = "maintenance_plan_get" -> "Getting maintenance plans failed."
      [] o = "maintenance_plan_delete" -> "Deleting maintenance plan failed."
      [] o = "maintenance_plan_stop" -> "Stopping maintenance plan failed."
      [] o = "oim_send_alert" -> "Sending alert failed."

\* The operation o leaves with e before it constructs a session, or, when e
\* is NoExc, constructs its session and goes on to its request.
BeginSimple(o, e) ==
    /\ pc = "idle"
    /\ op' = o
    /\ IF e # NoExc
       THEN Raise(e) /\ UNCHANGED bp_session
       ELSE bp_session' = "open" /\ pc' = "request" /\ UNCHANGED exc
    /\ UNCHANGED <<csv_path, list_of_dicts, csv_string, r_id, mapping_id,
                   upload_target, job_script, served, r_upload, job_id,
                   r_status, transport, nLookup, nSubmit, nPoll, nSleep,
                   nRequest, sent>>

\* Query tag "q"; result tags "a" and "ab".
QueryTags == {<<113>>}

ResultTags == EnrichmentNames

\* mapping_enrichment.py lines 141-152: mapping_config.  The name in scope
\* (enrichment_name after lines 138-139) is not read.
MappingConfig(query_tag, result_tag, name) ==
    << <<"type", "mapping">>,
       <<"active", TRUE>>,
       <<"when", "discard != true">>,
       <<"config",
         << <<"name", result_tag>>,
            <<"fields",
              << << <<"title", query_tag>>, <<"type", "query_tag">> >>,
                 << <<"title", result_tag>>, <<"type", "result_tag">>,
                    <<"override_existing", TRUE>> >> >> >> >> >> >>

\* mapping_enrichment.py lines 138-158.
mapping_create_schema_Begin ==
    \E query_tag \in QueryTags, result_tag \in ResultTags, name \in NameArgs :
        /\ BeginSimple("mapping_create_schema", NoExc)
        /\ args' = << <<"query_tag", query_tag>>, <<"result_tag", result_tag>>,
                      <<"enrichment_name", name>> >>
        /\ enrichment_name' = IF name = None THEN Some(result_tag) ELSE name
        /\ req_body' = Some(MappingConfig(query_tag, result_tag,
                                          enrichment_name'[1]))

\* maintenance_plans.py lines 74-117: the checks of the time arguments.
PlanCreateChecks(start_time, end_time, end_time_delta) ==
    IF start_time = "bad"
    THEN Exc("ValueError", "Unable to parse 'start_time'")
    ELSE IF ClassTruthy(end_time) /\ ClassTruthy(end_time_delta)
    THEN Exc("ValueError", "Only one of the arguments 'end_time' and 'end_time_delta' can be provided.")
    ELSE IF end_time = "None" /\ end_time_delta = "None"
    THEN Exc("ValueError", "One of either argument 'end_time' or 'end_time_delta' must be provided.")
    ELSE IF ClassTruthy(end_time)
    THEN IF end_time = "bad"
         THEN Exc("ValueError", "Unable to parse 'end_time'")
         ELSE NoExc
    ELSE IF ClassTruthy(end_time_delta)
    THEN IF end_time_delta = "bad"
         THEN Exc("ValueError", "Unable to parse 'end_time_delta'")
         ELSE NoExc
    ELSE Exc("UnboundLocalError", "end_time_datetime")

maintenance_plan_create_Begin ==
    \E start_time, end_time, end_time_delta \in StrClasses :
        /\ BeginSimple("maintenance_plan_create",
                       PlanCreateChecks(start_time, end_time, end_time_delta))
        /\ UNCHANGED <<enrichment_name, args, req_body>>

\* maintenance_plans.py lines 162-172: name is compiled as a regex.
maintenance_plan_get_Begin ==
    \E name \in StrClasses :
        /\ BeginSimple("maintenance_plan_get",
                       IF name = "bad"
                       THEN Exc("ValueError", "Unable to compile 'name' into a regex.")
                       ELSE NoExc)
        /\ UNCHANGED <<enrichment_name, args, req_body>>

\* maintenance_plans.py lines 208-212.
maintenance_plan_delete_Begin ==
    /\ BeginSimple("maintenance_plan_delete", NoExc)
    /\ UNCHANGED <<enrichment_name, args, req_body>>

\* maintenance_plans.py lines 237-241.
maintenance_plan_stop_Begin ==
    /\ BeginSimple("maintenance_plan_stop", NoExc)
    /\ UNCHANGED <<enrichment_name, args, req_body>>

\* oim_alerts.py line 61.
ValidStatuses == {"ok", "critical", "warning", "acknowledged"}

\* The status, app_key and properties arguments of oim_send_alert.
StatusArgs == ValidStatuses \cup {"bogus"}

AppKeys == {"k1", "k2"}

PropertyKeys == {"host", "status", "app_key"}

PropertyValues == {"ok", "bogus"}

PropertyDicts ==
    UNION {{d \in [1..k -> PropertyKeys \X PropertyValues] :
               \A i, j \in 1..k : i # j => d[i][1] # d[j][1]}
              : k \in 0..MaxProps}

\* {**a, **b}: the keys of a keep their place and take b's value when b has
\* the key; the other keys of b follow.
Merge(a, b) ==
    [i \in 1..Len(a) |-> <<a[i][1], DictGet(b, a[i][1], a[i][2])>>]
        \o SelectSeq(b, LAMBDA p : p[1] \notin DictKeys(a))

\* d[key] = value
DictSet(d, key, value) ==
    IF key \in DictKeys(d)
    THEN [i \in 1..Len(d) |-> IF d[i][1] = key THEN <<key, value>> ELSE d[i]]
    ELSE Append(d, <<key, value>>)

\* oim_alerts.py lines 70-74: main_body and combined_body.
CombinedBody(app_key, status, properties) ==
    Merge(<< <<"app_key", app_key>>, <<"status", status>> >>, properties)

\* oim_alerts.py lines 61-83: status is checked, the body is built,
\* timestamp is parsed.  A parsed timestamp is the token "parsed".
oim_send_alert_Begin ==
    \E app_key \in AppKeys, status \in StatusArgs,
       properties \in PropertyDicts, timestamp \in StrClasses :
        /\ BeginSimple("oim_send_alert",
                       IF status \notin ValidStatuses
                       THEN Exc("ValueError", "Status must be one of %r.")
                       ELSE IF timestamp = "bad"
                       THEN Exc("ParserError", "")
                       ELSE NoExc)
        /\ args' = << <<"app_key", app_key>>, <<"status", status>>,
                      <<"properties", properties>>, <<"timestamp", timestamp>> >>
        /\ req_body' =
              IF status \notin ValidStatuses THEN None
              ELSE IF timestamp = "good"
              THEN Some(DictSet(CombinedBody(app_key, status, properties),
                                "timestamp", "parsed"))
              ELSE Some(CombinedBody(app_key, status, properties))
        /\ UNCHANGED enrichment_name

\* The one request of a single-request operation, inside its try/except.
SimpleRequest ==
    /\ pc = "request"
    /\ op \in SimpleOps
    /\ nRequest' = nRequest + 1
    /\ sent' = req_body
    /\ \/ /\ transport' = Request("request", "ok")
          /\ Return
       \/ \E t \in TransportErrors :
            /\ transport' = Request("request", t)
            /\ Raise(BigPandaAPIException(FailureMessage(op), None))
    /\ UNCHANGED <<op, csv_path, list_of_dicts, enrichment_name, csv_string,
                   bp_session, r_id, mapping_id, upload_target, job_script,
                   served, r_upload, job_id, r_status, nLookup, nSubmit, nPoll,
                   nSleep, args, req_body>>

Next ==
    \/ mapping_update_table_Begin
    \/ mapping_update_table_Lookup
    \/ mapping_update_table_Submit
    \/ mapping_update_table_Sleep
    \/ mapping_update_table_Poll
    \/ mapping_create_schema_Begin
    \/ maintenance_plan_create_Begin
    \/ maintenance_plan_get_Begin
    \/ maintenance_plan_delete_Begin
    \/ maintenance_plan_stop_Begin
    \/ oim_send_alert_Begin
    \/ SimpleRequest

Spec == Init /\ [][Next]_vars

\* The calling thread keeps running: a sleep ends and a request is answered.
FairSpec ==
    /\ Init
    /\ [][Next]_vars
    /\ WF_vars(mapping_update_table_Lookup)
    /\ WF_vars(mapping_update_table_Submit)
    /\ WF_vars(mapping_update_table_Sleep)
    /\ WF_vars(mapping_update_table_Poll)

(***************************************************************************)
(* The CSV helper on its own: a list of records is drawn and converted.    *)
(***************************************************************************)
CsvInit ==
    /\ op = "_list_of_dicts_to_csv_str"
    /\ pc = "idle"
    /\ csv_path = None
    /\ list_of_dicts \in {Some(l) : l \in CsvInputs}
    /\ enrichment_name = None
    /\ csv_string = None
    /\ bp_session = "none"
    /\ r_id = <<>>
    /\ mapping_id = None
    /\ upload_target = None
    /\ job_script = NoJob
    /\ served = 0
    /\ r_upload = None
    /\ job_id = None
    /\ r_status = None
    /\ transport = NoRequest
    /\ exc = NoExc
    /\ nLookup = 0
    /\ nSubmit = 0
    /\ nPoll = 0
    /\ nSleep = 0
    /\ nRequest = 0
    /\ args = <<>>
    /\ req_body = None
    /\ sent = None

Convert ==
    /\ pc = "idle"
    /\ op = "_list_of_dicts_to_csv_str"
    /\ csv_string' = Some(_list_of_dicts_to_csv_str(list_of_dicts[1]))
    /\ pc' = "returned"
    /\ UNCHANGED <<op, csv_path, list_of_dicts, enrichment_name, bp_session,
                   r_id, mapping_id, upload_target, job_script, served,
                   r_upload, job_id, r_status, transport, exc, nLookup, nSubmit,
                   nPoll, nSleep, nRequest>>
    /\ UNCHANGED <<args, req_body, sent>>

CsvNext == Convert

CsvSpec == CsvInit /\ [][CsvNext]_vars

(***************************************************************************)
(* Properties                                                              *)
(***************************************************************************)
UpdateTable == op = "mapping_update_table"

Ended == pc \in {"returned", "raised"}

InLoop == pc \in {"sleep", "poll"}

StatusBody(status) == Some(Body("status", status))

\* C1: when the upload request of mapping_update_table fails at transport
\* level, the call raises BigPandaAPIException and no poll request is issued.
C1_SubmitFailureRaisesDomainError ==
    (UpdateTable /\ transport.step = "submit"
                 /\ transport.result \in TransportErrors)
        => /\ pc = "raised"
           /\ exc.type = "BigPandaAPIException"
           /\ nPoll = 0

\* C2: when the upload response has no job_id field, the call raises
\* BigPandaAPIException before any poll request and before any wait.
C2_MissingJobIdRaisesBeforePoll ==
    (UpdateTable /\ r_upload # None /\ "job_id" \notin DictKeys(r_upload[1]))
        => /\ pc = "raised"
           /\ exc.type = "BigPandaAPIException"
           /\ nPoll = 0
           /\ nSleep = 0

C2_Witness ==
    UpdateTable /\ r_upload = Some(<<>>) /\ nSubmit = 1 /\ pc = "raised"

\* C3: a job that answers k non-terminal statuses and then `done` is polled
\* exactly k + 1 times, each poll preceded by one sleep; the call ends only
\* on `done`, issues nothing after it, and returns without an exception.
C3_DoneAfterKPlusOnePolls ==
    (UpdateTable /\ job_script.tail = "done")
        => /\ pc \in {"sleep", "poll", "returned"}
           /\ pc = "sleep" =>
                nPoll <= Len(job_script.prefix) /\ nSleep = nPoll
           /\ pc = "poll" =>
                nPoll <= Len(job_script.prefix) /\ nSleep = nPoll + 1
           /\ pc = "returned" =>
                /\ nPoll = Len(job_script.prefix) + 1
                /\ nSleep = nPoll
                /\ exc = NoExc
           /\ pc = "returned" <=> r_status = StatusBody("done")

C3_Witness ==
    /\ UpdateTable
    /\ job_script = [prefix |-> <<"pending", "pending">>, tail |-> "done"]
    /\ pc = "returned"
    /\ nPoll = 3

\* C4: a job that answers k non-terminal statuses and then `failed` is
\* polled exactly k + 1 times and the call then raises BigPandaAPIException
\* whose message names the job id the upload returned; it never returns.
C4_FailedAfterKPlusOnePolls ==
    (UpdateTable /\ job_script.tail = "failed")
        => /\ pc \in {"sleep", "poll", "raised"}
           /\ InLoop => nPoll <= Len(job_script.prefix)
           /\ pc = "raised" =>
                /\ nPoll = Len(job_script.prefix) + 1
                /\ r_status = StatusBody("failed")
                /\ exc.type = "BigPandaAPIException"
                /\ exc.msg = "Upload with job ID {job_id} failed!"
                /\ exc.arg = Some(DictGet(r_upload[1], "job_id", ""))

C4_Witness ==
    /\ UpdateTable
    /\ job_script = [prefix |-> <<"pending">>, tail |-> "failed"]
    /\ pc = "raised"
    /\ nPoll = 2

\* C5: when a poll request fails at transport level, the call raises
\* BigPandaAPIException with a message of its own, not that of a failed
\* upload.
C5_PollFailureRaisesDomainError ==
    (UpdateTable /\ transport.step = "poll"
                 /\ transport.result \in TransportErrors)
        => /\ pc = "raised"
           /\ exc.type = "BigPandaAPIException"
           /\ exc.msg # SubmitFailure(transport.result).msg

\* C6: every top-level operation has released the session it opened when
\* it returns or raises.
C6_SessionReleasedOnExit == Ended => bp_session # "open"

\* C7: a mapping_update_table call given both csv_path and list_of_dicts,
\* neither, or a list_of_dicts (an empty one included) without an
\* enrichment_name raises TypeError and has issued no request.
C7_MalformedArgumentsRaiseTypeError ==
    (/\ UpdateTable
     /\ \/ csv_path # None /\ list_of_dicts # None
        \/ csv_path = None /\ list_of_dicts = None
        \/ csv_path = None /\ list_of_dicts # None /\ ~Truthy(enrichment_name))
        => /\ pc = "raised"
           /\ exc.type = "TypeError"
           /\ nLookup = 0 /\ nSubmit = 0 /\ nPoll = 0

C9_LookupIsExactFirstMatch ==
    LET hits == {i \in 1..Len(r_id) :
                    enrichment_name # None
                        /\ r_id[i].config.name = enrichment_name[1]}
        first == CHOOSE i \in hits : \A j \in hits : i <= j
    IN  UpdateTable =>
            /\ hits # {} =>
                  /\ mapping_id = Some(r_id[first].id)
                  /\ nSubmit >= 1 => upload_target = Some(r_id[first].id)
            /\ nSubmit >= 1 =>
                  \E i \in hits : upload_target = Some(r_id[i].id)

C9_Witness ==
    /\ UpdateTable
    /\ Len(r_id) = 2
    /\ enrichment_name = Some(r_id[1].config.name)
    /\ enrichment_name = Some(r_id[2].config.name)
    /\ nSubmit = 1
    /\ upload_target = Some(r_id[1].id)

\* Reading back a text written in the "unix" dialect with QUOTE_ALL: the
\* lines, and the cells of a line with their quotes removed.
CsvLines(text) == Split(text, 10)

RECURSIVE Undouble(_)
Undouble(s) ==
    IF s = <<>> THEN <<>>
    ELSE IF Len(s) >= 2 /\ s[1] = 34 /\ s[2] = 34
    THEN <<34>> \o Undouble(SubSeq(s, 3, Len(s)))
    ELSE <<Head(s)>> \o Undouble(Tail(s))

ParseLine(line) ==
    IF line = <<>> THEN <<>>
    ELSE LET cells == Split(line, 44)
         IN  [j \in 1..Len(cells) |->
                 Undouble(SubSeq(cells[j], 2, Len(cells[j]) - 1))]

\* C10: the header row of _list_of_dicts_to_csv_str is the union of the
\* records' field names, each once, in ascending order (so it depends on
\* neither the order of the records nor that of the keys within a record),
\* and a record that lacks a header field has an empty cell in that column.
C10_HeaderIsSortedUnion ==
    (op = "_list_of_dicts_to_csv_str" /\ pc = "returned") =>
        LET lod == list_of_dicts[1]
            lines == CsvLines(csv_string[1])
            header == ParseLine(lines[1])
            keys == UNION {DictKeys(lod[r]) : r \in 1..Len(lod)}
        IN  /\ Len(lines) = Len(lod) + 2
            /\ Range(header) = keys
            /\ Len(header) = Cardinality(keys)
            /\ \A i, j \in 1..Len(header) :
                   i < j => StrLess(header[i], header[j])
            /\ \A r \in 1..Len(lod) :
                   LET row == ParseLine(lines[r + 1])
                   IN  /\ Len(row) = Len(header)
                       /\ \A j \in 1..Len(header) :
                              header[j] \notin DictKeys(lod[r])
                                  => row[j] = <<>>

\* Two records whose keys are first met in descending order, the second
\* lacking a field of the first.
C10_Witness ==
    /\ op = "_list_of_dicts_to_csv_str"
    /\ pc = "returned"
    /\ Len(list_of_dicts[1]) = 2
    /\ DictKeys(list_of_dicts[1][1]) = {<<98>>, <<97, 98>>}
    /\ list_of_dicts[1][1][1][1] = <<98>>
    /\ DictKeys(list_of_dicts[1][2]) = {<<97>>}

\* C11: the config name in the request body of mapping_create_schema is
\* the enrichment_name argument when one is given, and result_tag when none
\* is.
C11_SchemaNamedAfterEnrichmentName ==
    (op = "mapping_create_schema" /\ sent # None) =>
        LET given == DictGet(args, "enrichment_name", None)
            name == DictGet(DictGet(sent[1], "config", <<>>), "name", <<>>)
        IN  name = IF given # None THEN given[1]
                   ELSE DictGet(args, "result_tag", <<>>)

\* C12: the body of the request oim_send_alert issues has a status among
\* "ok", "critical", "warning", "acknowledged" and the app_key argument as
\* its app_key, whatever the properties hold.
C12_AlertBodyKeepsStatusAndAppKey ==
    (op = "oim_send_alert" /\ sent # None) =>
        /\ DictGet(sent[1], "status", "") \in ValidStatuses
        /\ DictGet(sent[1], "app_key", "") = DictGet(args, "app_key", "")

====
